---- MODULE Spec2Model ----
(***************************************************************************)
(* Model of src/homework.py: a bot that polls the homework-review API,     *)
(* validates the answer, formats every homework record and forwards it to  *)
(* Telegram, and reports failures of a cycle once per run of equal texts.  *)
(*                                                                         *)
(* The Russian string literals of the source are written here in ASCII    *)
(* (the module's strings are ASCII only); every literal of the source has  *)
(* its own, distinct rendering, so equality of texts is preserved.         *)
(***************************************************************************)
EXTENDS Integers, Sequences, FiniteSets, TLC

(***************************************************************************)
(* Bounds of the model.                                                    *)
(***************************************************************************)
\* longest 'homeworks' list the API returns
MaxLen == 2
\* last clock reading that is told apart (seconds since the process started)
MaxTime == 600

(***************************************************************************)
(* Program constants.                                                      *)
(***************************************************************************)
RETRY_PERIOD == 600

\* Python's None where it is compared with strings (last_error, os.getenv)
None == "<None>"
\* main's local 'timestamp' before line 116 binds it
Unbound == 0 - 1

HOMEWORK_VERDICTS ==
    [approved  |-> "Work checked: the reviewer liked everything. Hooray!",
     reviewing |-> "Work taken for review by the reviewer.",
     rejected  |-> "Work checked: the reviewer has remarks."]

(***************************************************************************)
(* Decoded JSON values: null, string, list, object (a Python dict).        *)
(***************************************************************************)
JNull == [t |-> "null"]
JStr(s) == [t |-> "str", v |-> s]
JList(q) == [t |-> "list", v |-> q]
JDict(f) == [t |-> "dict", v |-> f]

\* isinstance(x, dict), isinstance(x, list)
IsDict(x) == x.t = "dict"
IsList(x) == x.t = "list"
\* d.get(key): the value under key, None (JNull) when the key is absent
Get(d, key) == IF key \in DOMAIN d.v THEN d.v[key] ELSE JNull
\* f'{x}' of a decoded value that is a string or None
Format(x) == IF x.t = "null" THEN "None" ELSE x.v

\* outcome of a call: a returned value or a raised exception
Return(val) == [raised |-> FALSE, val |-> val]
Raise(type, arg) == [raised |-> TRUE, exc |-> [type |-> type, arg |-> arg]]

\* str(error): a KeyError prints the repr of its argument, the others the
\* argument itself
Str(exc) == IF exc.type = "KeyError" THEN "'" \o exc.arg \o "'" ELSE exc.arg

(***************************************************************************)
(* check_tokens: the names of the secrets that are None or empty.          *)
(***************************************************************************)
TokenNames == {"PRACTICUM_TOKEN", "TELEGRAM_TOKEN", "TELEGRAM_CHAT_ID"}
TokenValues == {None, "", "secret"}

\* variant: only an unset variable counts as missing ('TOKEN is None')
Falsy_NoneOnly(tok) == tok = None

\* Python's 'not TOKEN' for a value of os.getenv
Falsy(tok) == tok = None \/ tok = ""

missing_tokens(env) == {n \in TokenNames : Falsy(env[n])}

check_tokens(env) == missing_tokens(env) = {}

\* variant: a missing key defaults to the empty list
\* (response.get('homeworks', []))
check_response_DefaultsToEmpty(response) ==
    IF ~IsDict(response)
    THEN Raise("TypeError", "API response must be a dict.")
    ELSE IF "homeworks" \notin DOMAIN response.v
    THEN Return(<<>>)
    ELSE IF ~IsList(response.v["homeworks"])
    THEN Raise("TypeError", "Key \"homeworks\" must be a list.")
    ELSE Return(response.v["homeworks"].v)

\* variant: an empty list is rejected ('if not response["homeworks"]: raise')
check_response_EmptyIsError(response) ==
    IF ~IsDict(response)
    THEN Raise("TypeError", "API response must be a dict.")
    ELSE IF "homeworks" \notin DOMAIN response.v
    THEN Raise("KeyError", "Missing key \"homeworks\".")
    ELSE IF ~IsList(response.v["homeworks"])
    THEN Raise("TypeError", "Key \"homeworks\" must be a list.")
    ELSE IF response.v["homeworks"].v = <<>>
    THEN Raise("ValueError", "Empty list of homeworks.")
    ELSE Return(response.v["homeworks"].v)

(***************************************************************************)
(* check_response                                                          *)
(***************************************************************************)
check_response(response) ==
    IF ~IsDict(response)
    THEN Raise("TypeError", "API response must be a dict.")
    ELSE IF "homeworks" \notin DOMAIN response.v
    THEN Raise("KeyError", "Missing key \"homeworks\".")
    ELSE IF ~IsList(response.v["homeworks"])
    THEN Raise("TypeError", "Key \"homeworks\" must be a list.")
    ELSE Return(response.v["homeworks"].v)

(***************************************************************************)
(* parse_status                                                            *)
(***************************************************************************)
parse_status(homework) ==
    IF ~IsDict(homework)
    THEN Raise("AttributeError", "'" \o homework.t \o "' object has no attribute 'get'")
    ELSE LET homework_name == Get(homework, "homework_name")
             status == Get(homework, "status")
         IN  IF homework_name.t = "null"
             THEN Raise("KeyError", "Missing key \"homework_name\".")
             ELSE IF status.t \in {"list", "dict"}
             THEN Raise("TypeError", "unhashable type: '" \o status.t \o "'")
             ELSE IF ~(status.t = "str" /\ status.v \in DOMAIN HOMEWORK_VERDICTS)
             THEN Raise("ValueError", "Unknown status: " \o Format(status))
             ELSE Return("Review status of work \"" \o Format(homework_name)
                         \o "\" changed. " \o HOMEWORK_VERDICTS[status.v])

(***************************************************************************)
(* get_api_answer.  The network's reply to requests.get is either a         *)
(* requests.RequestException or an HTTP response with a status code and    *)
(* the outcome of response.json(): the decoded body, or the exception the   *)
(* installed requests library raises on a body that is not JSON (a         *)
(* RequestException subclass since requests 2.27, a plain ValueError       *)
(* before).                                                                *)
(***************************************************************************)
TransportFailure == [kind |-> "RequestException"]
HttpResponse(status_code, json) ==
    [kind |-> "response", status_code |-> status_code, json |-> json]

\* variant: the exception of a non-200 response is caught inside and None
\* is returned ('except Exception')
get_api_answer_SwallowsBadStatus(reply) ==
    IF reply.kind = "RequestException"
    THEN Return(JNull)
    ELSE IF reply.status_code # 200
    THEN Return(JNull)
    ELSE IF reply.json.raised /\ reply.json.exc.type = "RequestException"
    THEN Return(JNull)
    ELSE reply.json

\* variant: without the except clause of line 76 the RequestException
\* leaves get_api_answer
get_api_answer_Propagates(reply) ==
    IF reply.kind = "RequestException"
    THEN Raise("RequestException", "Connection aborted.")
    ELSE IF reply.status_code # 200
    THEN Raise("Exception", "API error: " \o ToString(reply.status_code))
    ELSE reply.json

get_api_answer(reply) ==
    IF reply.kind = "RequestException"
    THEN Return(JNull)
    ELSE IF reply.status_code # 200
    THEN Raise("Exception", "API error: " \o ToString(reply.status_code))
    ELSE IF reply.json.raised /\ reply.json.exc.type = "RequestException"
    THEN Return(JNull)
    ELSE reply.json

(***************************************************************************)
(* Inputs of the loop: the homework records, the payloads and the replies  *)
(* the environment chooses from.                                           *)
(***************************************************************************)
Homeworks ==
    { JDict([homework_name |-> JStr("hw1"), status |-> JStr("approved")]),
      JDict([homework_name |-> JStr("hw2"), status |-> JStr("rejected")]),
      JDict([status |-> JStr("approved")]),
      JDict([homework_name |-> JStr("hw1"), status |-> JStr("bogus")]) }

RECURSIVE ListsUpTo(_)
ListsUpTo(n) ==
    IF n = 0 THEN {<<>>}
    ELSE LET shorter == ListsUpTo(n - 1)
         IN  shorter \cup {Append(q, h) : q \in shorter, h \in Homeworks}

Payloads ==
    { JNull, JStr("error"),
      JDict([current_date |-> JStr("0")]),
      JDict([homeworks |-> JNull, current_date |-> JStr("0")]) }
    \cup { JDict([homeworks |-> JList(q), current_date |-> JStr("0")]) :
              q \in ListsUpTo(MaxLen) }

Replies ==
    { TransportFailure,
      HttpResponse(500, Return(JNull)),
      HttpResponse(200, Raise("RequestException", "Expecting value")),
      HttpResponse(200, Raise("ValueError", "Expecting value")) }
    \cup { HttpResponse(200, Return(p)) : p \in Payloads }

(***************************************************************************)
(* State.                                                                  *)
(*   env          the three secrets read at import (lines 21-23)           *)
(*   last_error   the module-level marker (line 35)                        *)
(*   pc           the statement main is about to execute                   *)
(*   bot, timestamp, response, homeworks, idx, message, error              *)
(*                main's locals; idx is the position of the for loop       *)
(*   now          the clock read by time.time()                            *)
(* History (not read by the program):                                      *)
(*   cycle        the current cycle: cursor and marker at its fetch, the   *)
(*                network's reply, the sends attempted so far, who raised, *)
(*                whether the reply repeats the list of prev.batch         *)
(*   prev         the previous cycle: its outcome, its error text,         *)
(*                whether a diagnostic was sent for it, whether that was   *)
(*                the watched text and failed to be delivered, its cursor  *)
(*                unless the cycle moved it, and, until the next fetch,    *)
(*                its list of records when parse_status raised after the   *)
(*                first record                                             *)
(*   recent       the text of the latest cycle-level error                 *)
(*   watched      one error text, chosen arbitrarily when the run starts,  *)
(*                whose occurrences the run-long history follows           *)
(*   occurred     the watched text, once a cycle-level error had it        *)
(*   notified     the watched text, once a diagnostic was sent for it      *)
(*   calls        which external calls the run has made                    *)
(*   sleeps       the sleeps since the last fetch                          *)
(***************************************************************************)
VARIABLES env, last_error, pc, bot, timestamp, response, homeworks, idx,
          message, error, now, cycle, prev, recent, watched, occurred,
          notified, calls, sleeps

vars == <<env, last_error, pc, bot, timestamp, response, homeworks, idx,
          message, error, now, cycle, prev, recent, watched, occurred,
          notified, calls, sleeps>>

NoError == [type |-> "", arg |-> ""]
NoReply == [kind |-> "none"]
NoCycle == [ts |-> Unbound, marker |-> None, reply |-> NoReply, sent |-> <<>>,
            raisedBy |-> "", first |-> FALSE, outcome |-> "", again |-> FALSE]
NoPrev == [outcome |-> "", raisedBy |-> "", text |-> None, diag |-> FALSE,
           undelivered |-> FALSE, ts |-> Unbound, batch |-> <<>>]

Min(a, b) == IF a < b THEN a ELSE b

\* the texts of the exceptions the handler of line 138 can catch
ErrorTexts ==
    {Str(get_api_answer(r).exc) :
        r \in {q \in Replies : get_api_answer(q).raised}}
    \cup {Str(check_response(p).exc) :
            p \in {q \in Payloads : check_response(q).raised}}
    \cup {Str(parse_status(h).exc) :
            h \in {q \in Homeworks : parse_status(q).raised}}

Init ==
    /\ env \in [TokenNames -> TokenValues]
    /\ last_error = None
    /\ pc = "main"
    /\ bot = FALSE
    /\ timestamp = Unbound
    /\ response = JNull
    /\ homeworks = <<>>
    /\ idx = 0
    /\ message = ""
    /\ error = NoError
    /\ now = 0
    /\ cycle = NoCycle
    /\ prev = NoPrev
    /\ recent = None
    /\ watched \in ErrorTexts
    /\ occurred = {}
    /\ notified = {}
    /\ calls = [get |-> FALSE, send |-> FALSE, sleep |-> FALSE]
    /\ sleeps = 0

(***************************************************************************)
(* main, lines 111-118: the credential check, the bot and the cursor.      *)
(***************************************************************************)
Start ==
    /\ pc = "main"
    /\ IF ~check_tokens(env)
       THEN /\ pc' = "returned"
            /\ UNCHANGED <<bot, timestamp>>
       ELSE /\ bot' = TRUE
            /\ timestamp' = now
            /\ pc' = "request"
    /\ UNCHANGED <<env, last_error, response, homeworks, idx, message, error,
                   now, cycle, prev, recent, watched, occurred, notified,
                   calls, sleeps>>

(***************************************************************************)
(* An exception raised in the try block reaches the handler of line 138.   *)
(***************************************************************************)
Caught(exc, by, current) ==
    /\ error' = exc
    /\ pc' = "except"
    /\ occurred' = occurred \cup ({Str(exc)} \cap {watched})
    /\ cycle' = [current EXCEPT !.raisedBy = by, !.outcome = "error",
                                !.first = Str(exc) \notin occurred]

(***************************************************************************)
(* The reply carries, under 'homeworks', the list of records of the cycle  *)
(* before, in which parse_status raised after the first record.            *)
(***************************************************************************)
Again(reply) ==
    /\ prev.batch # <<>>
    /\ reply.kind = "response"
    /\ reply.status_code = 200
    /\ ~reply.json.raised
    /\ IsDict(reply.json.val)
    /\ "homeworks" \in DOMAIN reply.json.val.v
    /\ reply.json.val.v["homeworks"] = JList(prev.batch)

(***************************************************************************)
(* Lines 122-126: response = get_api_answer(timestamp); a None sleeps and  *)
(* continues.  The None of line 78 and a decoded JSON null are the same    *)
(* Python value, so both take the branch of line 124.                      *)
(***************************************************************************)
(* Variant of Request: after a None the loop continues at once, without    *)
(* the sleep of line 125.                                                  *)
(***************************************************************************)
Request_RetriesAtOnce ==
    /\ pc = "request"
    /\ \E reply \in Replies :
         LET answer == get_api_answer(reply)
             started == [cycle EXCEPT !.ts = timestamp, !.marker = last_error,
                                      !.reply = reply, !.again = Again(reply)]
         IN  IF answer.raised
             THEN /\ Caught(answer.exc, "get_api_answer", started)
                  /\ UNCHANGED response
             ELSE /\ IF answer.val.t = "null"
                     THEN /\ pc' = "request"
                          /\ cycle' = NoCycle
                          /\ UNCHANGED response
                     ELSE /\ pc' = "check"
                          /\ cycle' = started
                          /\ response' = answer.val
                  /\ UNCHANGED <<error, occurred>>
    /\ prev' = [prev EXCEPT !.batch = <<>>]
    /\ calls' = [calls EXCEPT !.get = TRUE]
    /\ sleeps' = 0
    /\ UNCHANGED <<env, last_error, bot, timestamp, homeworks, idx, message,
                   now, recent, watched, notified>>

(***************************************************************************)
Request ==
    /\ pc = "request"
    /\ \E reply \in Replies :
         LET answer == get_api_answer(reply)
             started == [cycle EXCEPT !.ts = timestamp, !.marker = last_error,
                                      !.reply = reply, !.again = Again(reply)]
         IN  IF answer.raised
             THEN /\ Caught(answer.exc, "get_api_answer", started)
                  /\ UNCHANGED response
             ELSE /\ response' = answer.val
                  /\ IF answer.val.t = "null"
                     THEN /\ pc' = "sleep"
                          /\ cycle' = [started EXCEPT !.outcome = "retry"]
                     ELSE /\ pc' = "check"
                          /\ cycle' = started
                  /\ UNCHANGED <<error, occurred>>
    /\ prev' = [prev EXCEPT !.batch = <<>>]
    /\ calls' = [calls EXCEPT !.get = TRUE]
    /\ sleeps' = 0
    /\ UNCHANGED <<env, last_error, bot, timestamp, homeworks, idx, message,
                   now, recent, watched, notified>>

(***************************************************************************)
(* Lines 128-130, 133-134: homeworks = check_response(response) and the    *)
(* test 'if homeworks'.                                                    *)
(***************************************************************************)
CheckResponse ==
    /\ pc = "check"
    /\ LET result == check_response(response)
       IN  IF result.raised
           THEN /\ Caught(result.exc, "check_response", cycle)
                /\ UNCHANGED <<homeworks, idx>>
           ELSE /\ homeworks' = result.val
                /\ IF result.val # <<>>
                   THEN idx' = 1 /\ pc' = "parse"
                   ELSE idx' = 0 /\ pc' = "advance"
                /\ UNCHANGED <<error, occurred, cycle>>
    /\ UNCHANGED <<env, last_error, bot, timestamp, response, message, now,
                   prev, recent, watched, notified, calls, sleeps>>

(***************************************************************************)
(* Line 131: message = parse_status(homework).                             *)
(***************************************************************************)
(* Variant of ParseStatus: a record parse_status rejects is skipped and    *)
(* the for loop goes on with the next one.                                 *)
(***************************************************************************)
ParseStatus_SkipsBadRecord ==
    /\ pc = "parse"
    /\ LET result == parse_status(homeworks[idx])
       IN  IF result.raised
           THEN /\ IF idx < Len(homeworks)
                   THEN idx' = idx + 1 /\ pc' = "parse"
                   ELSE idx' = idx /\ pc' = "advance"
                /\ UNCHANGED message
           ELSE /\ message' = result.val
                /\ pc' = "send"
                /\ UNCHANGED idx
    /\ UNCHANGED <<env, last_error, bot, timestamp, response, homeworks,
                   error, now, cycle, prev, recent, watched, occurred,
                   notified, calls, sleeps>>

(***************************************************************************)
ParseStatus ==
    /\ pc = "parse"
    /\ LET result == parse_status(homeworks[idx])
       IN  IF result.raised
           THEN /\ Caught(result.exc, "parse_status", cycle)
                /\ UNCHANGED message
           ELSE /\ message' = result.val
                /\ pc' = "send"
                /\ UNCHANGED <<error, occurred, cycle>>
    /\ UNCHANGED <<env, last_error, bot, timestamp, response, homeworks, idx,
                   now, prev, recent, watched, notified, calls, sleeps>>

(***************************************************************************)
(* send_message, lines 55-61: bot.send_message succeeds or raises; the     *)
(* exception is logged and swallowed.                                      *)
(***************************************************************************)
send_message(kind, text, delivered) ==
    /\ bot
    /\ cycle' = [cycle EXCEPT !.sent = Append(@,
                    [kind |-> kind, pos |-> idx, text |-> text,
                     delivered |-> delivered])]
    /\ calls' = [calls EXCEPT !.send = TRUE]

(***************************************************************************)
(* Line 132 and the step of the for loop of line 130.                      *)
(***************************************************************************)
(* Variant of SendHomework: send_message has no try/except, so a failed    *)
(* send raises into the handler of line 138.                               *)
(***************************************************************************)
SendHomework_Raises ==
    /\ pc = "send"
    /\ bot
    /\ \E delivered \in BOOLEAN :
         LET logged == [cycle EXCEPT !.sent = Append(@,
                          [kind |-> "homework", pos |-> idx, text |-> message,
                           delivered |-> delivered])]
             exc == [type |-> "ApiException", arg |-> "Telegram is down."]
         IN  IF delivered
             THEN /\ cycle' = logged
                  /\ IF idx < Len(homeworks)
                     THEN idx' = idx + 1 /\ pc' = "parse"
                     ELSE idx' = idx /\ pc' = "advance"
                  /\ UNCHANGED <<error, occurred>>
             ELSE /\ Caught(exc, "send_message", logged)
                  /\ UNCHANGED idx
    /\ calls' = [calls EXCEPT !.send = TRUE]
    /\ UNCHANGED <<env, last_error, bot, timestamp, response, homeworks,
                   message, now, prev, recent, watched, notified, sleeps>>

(***************************************************************************)
SendHomework ==
    /\ pc = "send"
    /\ \E delivered \in BOOLEAN : send_message("homework", message, delivered)
    /\ IF idx < Len(homeworks)
       THEN idx' = idx + 1 /\ pc' = "parse"
       ELSE idx' = idx /\ pc' = "advance"
    /\ UNCHANGED <<env, last_error, bot, timestamp, response, homeworks,
                   message, error, now, prev, recent, watched, occurred,
                   notified, sleeps>>

(***************************************************************************)
(* Line 136: timestamp = int(time.time()).                                 *)
(***************************************************************************)
(* Variants of Advance: line 136 is missing, the cursor stays; and a       *)
(* successful cycle resets last_error to None.                             *)
(***************************************************************************)
Advance_KeepsCursor ==
    /\ pc = "advance"
    /\ pc' = "sleep"
    /\ cycle' = [cycle EXCEPT !.outcome = "ok"]
    /\ UNCHANGED <<env, last_error, bot, timestamp, response, homeworks, idx,
                   message, error, now, prev, recent, watched, occurred,
                   notified, calls, sleeps>>

Advance_ClearsMarker ==
    /\ pc = "advance"
    /\ timestamp' = now
    /\ last_error' = None
    /\ pc' = "sleep"
    /\ cycle' = [cycle EXCEPT !.outcome = "ok"]
    /\ UNCHANGED <<env, bot, response, homeworks, idx, message, error, now,
                   prev, recent, watched, occurred, notified, calls, sleeps>>

(***************************************************************************)
Advance ==
    /\ pc = "advance"
    /\ timestamp' = now
    /\ pc' = "sleep"
    /\ cycle' = [cycle EXCEPT !.outcome = "ok"]
    /\ UNCHANGED <<env, last_error, bot, response, homeworks, idx, message,
                   error, now, prev, recent, watched, occurred, notified,
                   calls, sleeps>>

(***************************************************************************)
(* Lines 138-142: the handler builds the diagnostic and compares the       *)
(* error's text with last_error.                                           *)
(***************************************************************************)
(* Variant of Except: the handler does not compare the text with           *)
(* last_error and always sends the diagnostic.                             *)
(***************************************************************************)
Except_NoDedup ==
    /\ pc = "except"
    /\ message' = "Program failure: " \o Str(error)
    /\ pc' = "send_diagnostic"
    /\ UNCHANGED <<env, last_error, bot, timestamp, response, homeworks, idx,
                   error, now, cycle, prev, recent, watched, occurred,
                   notified, calls, sleeps>>

(***************************************************************************)
(* Variant of Except: the handler sets the cursor to the clock's reading,  *)
(* as line 136 does for a successful cycle.                                *)
(***************************************************************************)
Except_AdvancesCursor ==
    /\ pc = "except"
    /\ message' = "Program failure: " \o Str(error)
    /\ timestamp' = now
    /\ pc' = IF last_error # Str(error) THEN "send_diagnostic" ELSE "sleep"
    /\ UNCHANGED <<env, last_error, bot, response, homeworks, idx, error, now,
                   cycle, prev, recent, watched, occurred, notified, calls,
                   sleeps>>

(***************************************************************************)
Except ==
    /\ pc = "except"
    /\ message' = "Program failure: " \o Str(error)
    /\ pc' = IF last_error # Str(error) THEN "send_diagnostic" ELSE "sleep"
    /\ UNCHANGED <<env, last_error, bot, timestamp, response, homeworks, idx,
                   error, now, cycle, prev, recent, watched, occurred,
                   notified, calls, sleeps>>

(***************************************************************************)
(* Lines 143-144: send_message(bot, message); last_error = str(error).     *)
(***************************************************************************)
(* Variant of SendDiagnostic: line 144 is missing, last_error is never     *)
(* written.                                                                *)
(***************************************************************************)
SendDiagnostic_ForgetsMarker ==
    /\ pc = "send_diagnostic"
    /\ \E delivered \in BOOLEAN : send_message("diagnostic", message, delivered)
    /\ notified' = notified \cup ({Str(error)} \cap {watched})
    /\ pc' = "sleep"
    /\ UNCHANGED <<env, last_error, bot, timestamp, response, homeworks, idx,
                   message, error, now, prev, recent, watched, occurred,
                   sleeps>>

(***************************************************************************)
(* Variant of SendDiagnostic: send_message reports whether it delivered,   *)
(* and line 144 runs only when it did.                                     *)
(***************************************************************************)
SendDiagnostic_MarksOnlyDelivered ==
    /\ pc = "send_diagnostic"
    /\ \E delivered \in BOOLEAN :
         /\ send_message("diagnostic", message, delivered)
         /\ last_error' = IF delivered THEN Str(error) ELSE last_error
    /\ notified' = notified \cup ({Str(error)} \cap {watched})
    /\ pc' = "sleep"
    /\ UNCHANGED <<env, bot, timestamp, response, homeworks, idx, message,
                   error, now, prev, recent, watched, occurred, sleeps>>

(***************************************************************************)
SendDiagnostic ==
    /\ pc = "send_diagnostic"
    /\ \E delivered \in BOOLEAN : send_message("diagnostic", message, delivered)
    /\ last_error' = Str(error)
    /\ notified' = notified \cup ({Str(error)} \cap {watched})
    /\ pc' = "sleep"
    /\ UNCHANGED <<env, bot, timestamp, response, homeworks, idx, message,
                   error, now, prev, recent, watched, occurred, sleeps>>

(***************************************************************************)
(* time.sleep(RETRY_PERIOD) of lines 125, 137 and 146, and the jump back   *)
(* to the top of the loop.  The locals are dead there (each is assigned     *)
(* before its next read; 'error' is unbound when the handler ends).        *)
(***************************************************************************)
(* Variant of Sleep: the handler of line 138 ends the loop after its       *)
(* sleep ('break' after line 146).                                         *)
(***************************************************************************)
Sleep_BreaksOnError ==
    /\ pc = "sleep"
    /\ now' = Min(now + RETRY_PERIOD, MaxTime)
    /\ pc' = IF cycle.outcome = "error" THEN "returned" ELSE "request"
    /\ response' = JNull
    /\ homeworks' = <<>>
    /\ idx' = 0
    /\ message' = ""
    /\ error' = NoError
    /\ prev' = [outcome |-> cycle.outcome, raisedBy |-> cycle.raisedBy,
                text |-> IF cycle.outcome = "error" THEN Str(error) ELSE None,
                diag |-> \E i \in DOMAIN cycle.sent :
                            cycle.sent[i].kind = "diagnostic",
                undelivered |-> \E i \in DOMAIN cycle.sent :
                                   /\ cycle.sent[i].kind = "diagnostic"
                                   /\ ~cycle.sent[i].delivered
                                   /\ Str(error) = watched,
                ts |-> IF cycle.outcome = "ok" THEN Unbound ELSE cycle.ts,
                batch |-> IF cycle.raisedBy = "parse_status" /\ idx > 1
                          THEN homeworks ELSE <<>>]
    /\ recent' = IF cycle.outcome = "error" THEN Str(error) ELSE recent
    /\ cycle' = NoCycle
    /\ calls' = [calls EXCEPT !.sleep = TRUE]
    /\ sleeps' = sleeps + 1
    /\ UNCHANGED <<env, last_error, bot, timestamp, watched, occurred,
                   notified>>

(***************************************************************************)
Sleep ==
    /\ pc = "sleep"
    /\ now' = Min(now + RETRY_PERIOD, MaxTime)
    /\ pc' = "request"
    /\ response' = JNull
    /\ homeworks' = <<>>
    /\ idx' = 0
    /\ message' = ""
    /\ error' = NoError
    /\ prev' = [outcome |-> cycle.outcome, raisedBy |-> cycle.raisedBy,
                text |-> IF cycle.outcome = "error" THEN Str(error) ELSE None,
                diag |-> \E i \in DOMAIN cycle.sent :
                            cycle.sent[i].kind = "diagnostic",
                undelivered |-> \E i \in DOMAIN cycle.sent :
                                   /\ cycle.sent[i].kind = "diagnostic"
                                   /\ ~cycle.sent[i].delivered
                                   /\ Str(error) = watched,
                ts |-> IF cycle.outcome = "ok" THEN Unbound ELSE cycle.ts,
                batch |-> IF cycle.raisedBy = "parse_status" /\ idx > 1
                          THEN homeworks ELSE <<>>]
    /\ recent' = IF cycle.outcome = "error" THEN Str(error) ELSE recent
    /\ cycle' = NoCycle
    /\ calls' = [calls EXCEPT !.sleep = TRUE]
    /\ sleeps' = sleeps + 1
    /\ UNCHANGED <<env, last_error, bot, timestamp, watched, occurred,
                   notified>>

Next ==
    \/ Start
    \/ Request
    \/ CheckResponse
    \/ ParseStatus
    \/ SendHomework
    \/ Advance
    \/ Except
    \/ SendDiagnostic
    \/ Sleep

Spec == Init /\ [][Next]_vars

\* The progress properties do not read the run-long history, so their runs
\* follow one text only.
FairInit == Init /\ watched = Str(check_response(JNull).exc)

\* the interpreter always executes the next statement and every external
\* call returns
FairSpec == FairInit /\ [][Next]_vars /\ WF_vars(Next)

TypeOK ==
    /\ pc \in {"main", "returned", "request", "check", "parse", "send",
               "advance", "except", "send_diagnostic", "sleep"}
    /\ idx \in 0..MaxLen
    /\ now \in 0..MaxTime
    /\ sleeps \in 0..1

(***************************************************************************)
(* Vocabulary of the properties.                                           *)
(***************************************************************************)
\* main is inside a cycle: the fetch was issued, the sleep is not over
InCycle == pc \in {"check", "parse", "send", "advance", "except",
                   "send_diagnostic", "sleep"}
\* the cycle's exception has reached the handler
Handling == pc \in {"except", "send_diagnostic", "sleep"}
                /\ cycle.outcome = "error"
\* the sends of the current cycle, by kind
HomeworkSends == SelectSeq(cycle.sent, LAMBDA m : m.kind = "homework")
DiagnosticSends == SelectSeq(cycle.sent, LAMBDA m : m.kind = "diagnostic")
\* the functions whose exceptions the claims call validation and format errors
Validators == {"check_response", "parse_status"}
\* the reply is an HTTP response with the decoded body
Decoded(reply) ==
    reply.kind = "response" /\ reply.status_code = 200 /\ ~reply.json.raised
BadStatus(reply) == reply.kind = "response" /\ reply.status_code # 200
\* the position of the first record parse_status rejects, Len + 1 if none
FirstFailure(q) ==
    LET bad == {k \in DOMAIN q : parse_status(q[k]).raised}
    IN  IF bad = {} THEN Len(q) + 1
        ELSE CHOOSE k \in bad : \A j \in bad : k <= j
\* the current and the previous cycle both ended in a validation or format
\* error
TwoValidationErrors ==
    /\ pc = "sleep"
    /\ cycle.outcome = "error" /\ cycle.raisedBy \in Validators
    /\ prev.outcome = "error" /\ prev.raisedBy \in Validators

(***************************************************************************)
(* C1 (as claimed): of two consecutive cycles that end in a validation or  *)
(* format error, the first always gets a diagnostic; the second gets none  *)
(* when the texts are equal and one when they differ.                      *)
(***************************************************************************)
C1_AsClaimed ==
    TwoValidationErrors =>
        /\ prev.diag
        /\ IF prev.text = Str(error) THEN DiagnosticSends = <<>>
                                     ELSE Len(DiagnosticSends) = 1

(***************************************************************************)
(* C1 (amended): a cycle that ends in a validation or format error sends   *)
(* one diagnostic exactly when the error's text differs from last_error as *)
(* it was when the cycle began; so of two consecutive such cycles the      *)
(* second gets none when the texts are equal and one when they differ.     *)
(***************************************************************************)
C1_ConsecutiveErrors ==
    /\ (pc = "sleep" /\ cycle.outcome = "error"
            /\ cycle.raisedBy \in Validators) =>
          /\ Len(DiagnosticSends) <= 1
          /\ (Len(DiagnosticSends) = 1) <=> (cycle.marker # Str(error))
    /\ TwoValidationErrors =>
          IF prev.text = Str(error) THEN DiagnosticSends = <<>>
                                    ELSE Len(DiagnosticSends) = 1

C1_Witness ==
    /\ TwoValidationErrors
    /\ prev.text = Str(error)
    /\ prev.diag
    /\ DiagnosticSends = <<>>

C3_MissingSecretNeverStarts ==
    /\ []((\E n \in TokenNames : env[n] \in {None, ""}) =>
            /\ pc \in {"main", "returned"}
            /\ ~bot
            /\ ~calls.get /\ ~calls.send /\ ~calls.sleep)
    /\ [][(\E n \in TokenNames : env[n] \in {None, ""}) => pc' = "returned"]_vars

C3_Witness ==
    /\ pc = "returned"
    /\ Cardinality({n \in TokenNames : env[n] \in {None, ""}}) = 1

(***************************************************************************)
(* C4: a send that fails is not an error of the cycle: after a failed      *)
(* homework send the for loop goes on with the next record (or leaves the  *)
(* loop after the last one), after a failed diagnostic send main sleeps;   *)
(* no exception is caught, every record of a cycle that ends well was      *)
(* sent, and the cycle goes on to the next fetch.                          *)
(***************************************************************************)
SendFailed == \E i \in DOMAIN cycle.sent : ~cycle.sent[i].delivered
FailsNow == /\ Len(cycle'.sent) = Len(cycle.sent) + 1
            /\ ~cycle'.sent[Len(cycle'.sent)].delivered

C4_SendFailureIsNotFatal ==
    /\ [][pc = "send" /\ FailsNow =>
            /\ error' = error
            /\ cycle'.outcome = cycle.outcome
            /\ homeworks' = homeworks
            /\ IF idx < Len(homeworks) THEN pc' = "parse" /\ idx' = idx + 1
                                       ELSE pc' = "advance"]_vars
    /\ [][pc = "send_diagnostic" /\ FailsNow =>
            pc' = "sleep" /\ error' = error]_vars
    /\ [](pc = "sleep" /\ cycle.outcome = "ok" =>
            /\ Len(HomeworkSends) = Len(homeworks)
            /\ DiagnosticSends = <<>>)
    /\ [](bot => pc # "returned")
    /\ (SendFailed ~> (pc = "request"))

C4_Witness ==
    /\ pc = "sleep"
    /\ cycle.outcome = "ok"
    /\ Len(homeworks) = 2
    /\ ~cycle.sent[1].delivered

(***************************************************************************)
(* C5: once the loop has started it does not end: main never returns,      *)
(* from every point of the loop (the sleep that ends a cycle, whatever its *)
(* outcome, included) main comes back to line 123, and from there it       *)
(* issues the fetch and goes through that cycle to its sleep.              *)
(***************************************************************************)
C5_LoopNeverTerminates ==
    /\ [](bot => pc # "returned")
    /\ (bot ~> (pc = "request"))
    /\ ((pc = "request") ~> (pc = "sleep"))

C5_Witness ==
    /\ pc = "request"
    /\ prev.outcome = "error"
    /\ prev.diag
    /\ calls.sleep

(***************************************************************************)
(* C6: a decoded payload that is a dict whose 'homeworks' is the empty     *)
(* list: nothing is sent in the cycle, last_error keeps its value, no      *)
(* exception is caught, and the cycle goes through line 136 to its sleep.  *)
(***************************************************************************)
EmptyHomeworks(reply) ==
    /\ Decoded(reply)
    /\ IsDict(reply.json.val)
    /\ "homeworks" \in DOMAIN reply.json.val.v
    /\ IsList(reply.json.val.v["homeworks"])
    /\ reply.json.val.v["homeworks"].v = <<>>

C6_EmptyListIsQuiet ==
    /\ [](InCycle /\ EmptyHomeworks(cycle.reply) =>
            /\ pc \in {"check", "advance", "sleep"}
            /\ cycle.sent = <<>>
            /\ last_error = cycle.marker
            /\ cycle.outcome # "error")
    /\ [][EmptyHomeworks(cycle.reply) =>
            /\ pc = "check" => pc' = "advance"
            /\ pc = "advance" => pc' = "sleep"]_vars

C6_Witness ==
    /\ pc = "sleep"
    /\ EmptyHomeworks(cycle.reply)
    /\ last_error # None

(***************************************************************************)
(* C7: a decoded payload that is a dict without 'homeworks': check_response *)
(* raises KeyError('Missing key "homeworks".'); in the first cycle of the  *)
(* run where that happens exactly one message is sent, the diagnostic of   *)
(* that error, and no homework.                                            *)
(***************************************************************************)
NoHomeworksKey(reply) ==
    /\ Decoded(reply)
    /\ IsDict(reply.json.val)
    /\ "homeworks" \notin DOMAIN reply.json.val.v

C7_MissingKeyNotifiedOnce ==
    (InCycle /\ pc # "check" /\ NoHomeworksKey(cycle.reply)) =>
        /\ Handling
        /\ cycle.raisedBy = "check_response"
        /\ error = [type |-> "KeyError", arg |-> "Missing key \"homeworks\"."]
        /\ (pc = "sleep" /\ watched = Str(error) /\ cycle.first) =>
              /\ Len(cycle.sent) = 1
              /\ cycle.sent[1].kind = "diagnostic"
              /\ cycle.sent[1].text = "Program failure: " \o Str(error)

C7_Witness ==
    /\ pc = "sleep"
    /\ NoHomeworksKey(cycle.reply)
    /\ watched = Str(error)
    /\ cycle.first
    /\ cycle.marker # None
    /\ Len(cycle.sent) = 1

(***************************************************************************)
(* C8: after a requests.RequestException the cycle goes straight to its    *)
(* sleep: nothing is sent, the cursor and last_error keep their values,    *)
(* the sleep lasts RETRY_PERIOD and the next fetch uses the same cursor.   *)
(***************************************************************************)
C8_TransportFailureRetries ==
    /\ [](InCycle /\ cycle.reply.kind = "RequestException" =>
            /\ pc = "sleep"
            /\ cycle.outcome = "retry"
            /\ cycle.sent = <<>>
            /\ timestamp = cycle.ts
            /\ last_error = cycle.marker)
    /\ [][pc = "sleep" /\ cycle.reply.kind = "RequestException" =>
            /\ pc' = "request"
            /\ timestamp' = timestamp
            /\ last_error' = last_error
            /\ now' = Min(now + 600, MaxTime)]_vars

C8_Witness ==
    /\ pc = "sleep"
    /\ cycle.reply.kind = "RequestException"
    /\ last_error # None
    /\ timestamp < now

(***************************************************************************)
(* C9: the records are formatted and sent one by one in the order of the   *)
(* list: the i-th homework send of a cycle carries parse_status of the     *)
(* i-th record, and main is at record idx only after the sends of the      *)
(* records before it.  When parse_status raises at position k, exactly the *)
(* records before k were sent, and the exception is handled as a           *)
(* cycle-level error: one diagnostic exactly when its text differs from    *)
(* last_error.                                                             *)
(***************************************************************************)
C9_RecordsInOrderUntilFailure ==
    /\ InCycle =>
          /\ cycle.sent = HomeworkSends \o DiagnosticSends
          /\ \A i \in DOMAIN HomeworkSends :
                /\ HomeworkSends[i].pos = i
                /\ i < FirstFailure(homeworks)
                /\ HomeworkSends[i].text = parse_status(homeworks[i]).val
    /\ pc = "parse" => Len(HomeworkSends) = idx - 1
    /\ pc = "send" => Len(HomeworkSends) = idx - 1
    /\ (Handling /\ cycle.raisedBy = "parse_status") =>
          /\ FirstFailure(homeworks) <= Len(homeworks)
          /\ Len(HomeworkSends) = FirstFailure(homeworks) - 1
          /\ error = parse_status(homeworks[FirstFailure(homeworks)]).exc
          /\ pc = "sleep" =>
               ((Len(DiagnosticSends) = 1) <=> (cycle.marker # Str(error)))

C9_Witness ==
    /\ pc = "sleep"
    /\ cycle.raisedBy = "parse_status"
    /\ FirstFailure(homeworks) = 2
    /\ Len(HomeworkSends) = 1
    /\ Len(DiagnosticSends) = 1

(***************************************************************************)
(* C10 (as claimed): no diagnostic is sent for a text that a diagnostic    *)
(* was already sent for earlier in the run.                                *)
(***************************************************************************)
C10_AsClaimed == pc = "send_diagnostic" => Str(error) \notin notified

(***************************************************************************)
(* C10 (amended): a diagnostic is sent again for a text that was already   *)
(* notified only if a cycle-level error with another text came in between: *)
(* when the latest cycle-level error before this one had the same text,    *)
(* whatever successful cycles and transport failures came in between, no   *)
(* diagnostic is sent.                                                     *)
(***************************************************************************)
C10_OncePerRunOfEqualTexts ==
    /\ (pc = "send_diagnostic" /\ Str(error) \in notified) =>
          recent # Str(error)
    /\ (pc = "sleep" /\ cycle.outcome = "error" /\ recent = Str(error)) =>
          DiagnosticSends = <<>>

C10_Witness ==
    /\ pc = "sleep"
    /\ cycle.outcome = "error"
    /\ Str(error) \in notified
    /\ recent = Str(error)
    /\ prev.outcome = "ok"
    /\ DiagnosticSends = <<>>

(***************************************************************************)
(* check_response and parse_status as functions: one call of either on an  *)
(* argument drawn from the decoded JSON values below.  The argument of     *)
(* check_response is in 'response', its result in 'homeworks'; the         *)
(* argument of parse_status is homeworks[1], its result in 'message'; the  *)
(* exception of either is in 'error'.                                      *)
(***************************************************************************)
Absent == [t |-> "absent"]

\* the dict with the fields that are not Absent
HomeworkOf(name, status) ==
    LET field == [homework_name |-> name, status |-> status]
    IN  JDict([k \in {f \in DOMAIN field : field[f].t # "absent"} |-> field[k]])

AnyHomeworks ==
    { HomeworkOf(name, status) :
        name \in {Absent, JNull, JStr("hw1")},
        status \in {Absent, JNull, JStr("approved"), JStr("reviewing"),
                    JStr("rejected"), JStr("bogus"), JStr(""),
                    JList(<<>>), JDict(<<>>)} }

RECURSIVE AnyListsUpTo(_)
AnyListsUpTo(n) ==
    IF n = 0 THEN {<<>>}
    ELSE LET shorter == AnyListsUpTo(n - 1)
         IN  shorter \cup {Append(q, h) : q \in shorter, h \in AnyHomeworks}

AnyPayloads ==
    { JNull, JStr("homeworks"), JList(<<>>),
      JList(<<JDict([homeworks |-> JList(<<>>)])>>),
      JDict(<<>>), JDict([current_date |-> JStr("0")]) }
    \cup { JDict([homeworks |-> x]) :
             x \in {JNull, JStr("[]"), JDict([homeworks |-> JList(<<>>)])} }
    \cup { JDict([homeworks |-> JList(q)]) : q \in AnyListsUpTo(MaxLen) }
    \cup { JDict([homeworks |-> JList(q), current_date |-> JStr("0")]) :
             q \in AnyListsUpTo(MaxLen) }

CallInit ==
    /\ env = [n \in TokenNames |-> "secret"]
    /\ last_error = None
    /\ bot = FALSE
    /\ timestamp = Unbound
    /\ idx = 1
    /\ message = ""
    /\ error = NoError
    /\ now = 0
    /\ cycle = NoCycle
    /\ prev = NoPrev
    /\ recent = None
    /\ watched = Str(check_response(JNull).exc)
    /\ occurred = {}
    /\ notified = {}
    /\ calls = [get |-> FALSE, send |-> FALSE, sleep |-> FALSE]
    /\ sleeps = 0
    /\ \/ /\ pc = "check_response"
          /\ response \in AnyPayloads
          /\ homeworks = <<>>
       \/ /\ pc = "parse_status"
          /\ response = JNull
          /\ homeworks \in {<<h>> : h \in AnyHomeworks}

\* homeworks = check_response(response), lines 81-92
CallCheckResponse ==
    /\ pc = "check_response"
    /\ LET result == check_response(response)
       IN  IF result.raised
           THEN /\ pc' = "check_response raised"
                /\ error' = result.exc
                /\ UNCHANGED homeworks
           ELSE /\ pc' = "check_response returned"
                /\ homeworks' = result.val
                /\ UNCHANGED error
    /\ UNCHANGED <<env, last_error, bot, timestamp, response, idx, message,
                   now, cycle, prev, recent, watched, occurred, notified,
                   calls, sleeps>>

\* message = parse_status(homework), lines 95-106
CallParseStatus ==
    /\ pc = "parse_status"
    /\ LET result == parse_status(homeworks[idx])
       IN  IF result.raised
           THEN /\ pc' = "parse_status raised"
                /\ error' = result.exc
                /\ UNCHANGED message
           ELSE /\ pc' = "parse_status returned"
                /\ message' = result.val
                /\ UNCHANGED error
    /\ UNCHANGED <<env, last_error, bot, timestamp, response, homeworks, idx,
                   now, cycle, prev, recent, watched, occurred, notified,
                   calls, sleeps>>

CallNext == CallCheckResponse \/ CallParseStatus

CallSpec == CallInit /\ [][CallNext]_vars

(***************************************************************************)
(* C11: check_response returns exactly when its argument is a dict that    *)
(* has the key 'homeworks' with a list under it, and then it returns that  *)
(* list as it is, empty or not; otherwise it raises and returns no list:   *)
(* TypeError for an argument that is not a dict, else KeyError for a       *)
(* missing key, else TypeError for a value that is not a list.             *)
(***************************************************************************)
C11_CheckResponseContract ==
    LET mapping == response.t = "dict"
        keyed == mapping /\ "homeworks" \in DOMAIN response.v
        listed == keyed /\ response.v["homeworks"].t = "list"
    IN  /\ pc = "check_response returned" =>
              /\ listed
              /\ homeworks = response.v["homeworks"].v
        /\ pc = "check_response raised" =>
              /\ ~listed
              /\ homeworks = <<>>
              /\ error =
                   IF ~mapping
                   THEN [type |-> "TypeError",
                         arg |-> "API response must be a dict."]
                   ELSE IF ~keyed
                   THEN [type |-> "KeyError",
                         arg |-> "Missing key \"homeworks\"."]
                   ELSE [type |-> "TypeError",
                         arg |-> "Key \"homeworks\" must be a list."]

C11_Witness ==
    /\ pc = "check_response returned"
    /\ "current_date" \in DOMAIN response.v
    /\ Len(homeworks) = 2
    /\ homeworks[1] # homeworks[2]

(***************************************************************************)
(* C12 (as claimed): parse_status returns exactly when homework_name is    *)
(* present and not null and status is one of approved, reviewing,          *)
(* rejected, and then the message is built from the name and the verdict   *)
(* of the status; otherwise it raises KeyError for the name when the name  *)
(* is absent or null, else ValueError for the unknown status.              *)
(***************************************************************************)
C12_AsClaimed ==
    LET homework == homeworks[1]
        named == /\ "homework_name" \in DOMAIN homework.v
                 /\ homework.v["homework_name"].t # "null"
        known == /\ "status" \in DOMAIN homework.v
                 /\ homework.v["status"].t = "str"
                 /\ homework.v["status"].v \in
                        {"approved", "reviewing", "rejected"}
    IN  /\ pc = "parse_status returned" =>
              /\ named /\ known
              /\ message = "Review status of work \""
                             \o homework.v["homework_name"].v
                             \o "\" changed. "
                             \o HOMEWORK_VERDICTS[homework.v["status"].v]
        /\ pc = "parse_status raised" =>
              /\ ~(named /\ known)
              /\ IF ~named
                 THEN error = [type |-> "KeyError",
                               arg |-> "Missing key \"homework_name\"."]
                 ELSE /\ error.type = "ValueError"
                      /\ error.arg = "Unknown status: "
                            \o (IF "status" \in DOMAIN homework.v
                                   /\ homework.v["status"].t = "str"
                                THEN homework.v["status"].v ELSE "None")

(***************************************************************************)
(* C13: the cursor is set to the clock's reading at the end of a cycle     *)
(* whose fetch, validation and formatting of every record succeeded, and   *)
(* at no other point of the loop: during a cycle and at the end of any     *)
(* other cycle it is the cursor the cycle was fetched with, the sleep      *)
(* leaves it alone, and the fetch after a cycle that failed uses the       *)
(* from_date of that cycle.                                                *)
(***************************************************************************)
\* the decoded body is a dict with a list of records parse_status accepts
SuccessfulReply(reply) ==
    /\ Decoded(reply)
    /\ IsDict(reply.json.val)
    /\ "homeworks" \in DOMAIN reply.json.val.v
    /\ IsList(reply.json.val.v["homeworks"])
    /\ FirstFailure(reply.json.val.v["homeworks"].v)
          = Len(reply.json.val.v["homeworks"].v) + 1

C13_CursorAdvancesOnSuccessOnly ==
    /\ [](pc = "sleep" =>
            IF SuccessfulReply(cycle.reply) THEN timestamp = now
                                            ELSE timestamp = cycle.ts)
    /\ [](InCycle /\ pc # "sleep" => timestamp = cycle.ts)
    /\ [][pc = "sleep" => timestamp' = timestamp]_vars
    /\ [][pc = "request" =>
            /\ cycle'.ts = timestamp
            /\ prev.outcome \in {"error", "retry"} => cycle'.ts = prev.ts]_vars

C13_Witness ==
    /\ pc = "sleep"
    /\ SuccessfulReply(cycle.reply)
    /\ Len(homeworks) > 0
    /\ cycle.ts < now
    /\ timestamp = now

(***************************************************************************)
(* C14: every cycle sleeps RETRY_PERIOD exactly once: no sleep happens     *)
(* between a fetch and the end of its cycle, every fetch but the first     *)
(* follows exactly one sleep since the fetch before it, and every sleep    *)
(* lasts RETRY_PERIOD and leads to the next fetch.                         *)
(***************************************************************************)
C14_OneSleepPerCycle ==
    /\ [](InCycle => sleeps = 0)
    /\ [](pc = "request" => sleeps = IF calls.get THEN 1 ELSE 0)
    /\ [][pc = "sleep" =>
            /\ pc' = "request"
            /\ now' = Min(now + 600, MaxTime)]_vars
    /\ [][(pc \in {"advance", "send_diagnostic"}) => pc' = "sleep"]_vars

C14_Witness ==
    /\ pc = "request"
    /\ sleeps = 1
    /\ prev.outcome = "error"
    /\ ~prev.diag

(***************************************************************************)
(* C15 (as claimed): a decoded body that is not a dict, a JSON null        *)
(* included, reaches check_response, which raises TypeError('API response  *)
(* must be a dict.'), and the handler sends the diagnostic exactly when    *)
(* the text differs from last_error.                                       *)
(***************************************************************************)
C15_AsClaimed ==
    (InCycle /\ pc # "check" /\ Decoded(cycle.reply)
        /\ ~IsDict(cycle.reply.json.val)) =>
        /\ Handling
        /\ cycle.raisedBy = "check_response"
        /\ error = [type |-> "TypeError",
                    arg |-> "API response must be a dict."]
        /\ pc = "sleep" =>
             ((Len(DiagnosticSends) = 1) <=> (cycle.marker # Str(error)))

(***************************************************************************)
(* C16: last_error is written only by line 144, with the text of the       *)
(* cycle's error: cycles that end well or with a None from the fetch end   *)
(* with the last_error they began with, between cycles last_error is the   *)
(* text of the latest cycle-level error, and an error whose text is that   *)
(* of the latest error before it, with a successful cycle in between, gets *)
(* no diagnostic.                                                          *)
(***************************************************************************)
C16_MarkerWrittenByHandlerOnly ==
    /\ [][last_error' # last_error =>
            pc = "send_diagnostic" /\ last_error' = Str(error)]_vars
    /\ [](pc = "sleep" /\ cycle.outcome \in {"ok", "retry"} =>
            last_error = cycle.marker)
    /\ [](pc = "request" => last_error = recent)
    /\ [](pc = "sleep" /\ cycle.outcome = "error" /\ recent = Str(error)
            /\ prev.outcome = "ok" => DiagnosticSends = <<>>)

C16_Witness ==
    /\ pc = "sleep"
    /\ cycle.outcome = "error"
    /\ cycle.raisedBy = "check_response"
    /\ recent = Str(error)
    /\ prev.outcome = "ok"
    /\ cycle.marker = Str(error)
    /\ cycle.sent = <<>>

(***************************************************************************)
(* C17: the cursor is written (after line 116) only by line 136, and only  *)
(* when a send was attempted, in order, for the message of every record    *)
(* of the fetched list; a cycle that is not through all its records has    *)
(* the cursor it was fetched with.                                         *)
(***************************************************************************)
AllRecordsSent ==
    /\ SuccessfulReply(cycle.reply)
    /\ homeworks = cycle.reply.json.val.v["homeworks"].v
    /\ Len(HomeworkSends) = Len(homeworks)
    /\ \A i \in DOMAIN homeworks :
          /\ HomeworkSends[i].pos = i
          /\ HomeworkSends[i].text = parse_status(homeworks[i]).val

C17_CursorAfterAllSends ==
    /\ [](cycle.outcome = "ok" => AllRecordsSent)
    /\ [](InCycle /\ cycle.outcome # "ok" => timestamp = cycle.ts)
    /\ [][timestamp' # timestamp =>
            pc = "main" \/ (pc = "advance" /\ AllRecordsSent)]_vars
    /\ [][pc = "advance" => AllRecordsSent /\ cycle'.outcome = "ok"]_vars

C17_Witness ==
    /\ pc = "sleep"
    /\ cycle.outcome = "ok"
    /\ Len(homeworks) = 2
    /\ cycle.ts < timestamp
    /\ ~cycle.sent[2].delivered

(***************************************************************************)
(* C18: a cycle that ends in a cycle-level error ends with last_error      *)
(* equal to the error's text, whether the diagnostic was delivered, failed *)
(* to be delivered or was not sent; so when the diagnostic of one cycle    *)
(* was not delivered and the next cycle ends in an error of the same text, *)
(* no diagnostic is sent in that next cycle.                               *)
(***************************************************************************)
C18_MarkerSetEvenIfSendFails ==
    /\ [](pc = "sleep" /\ cycle.outcome = "error" => last_error = Str(error))
    /\ [][pc = "send_diagnostic" =>
            /\ Len(cycle'.sent) = Len(cycle.sent) + 1
            /\ last_error' = Str(error)]_vars
    /\ [](pc = "sleep" /\ cycle.outcome = "error" /\ prev.undelivered
            /\ prev.text = Str(error) => DiagnosticSends = <<>>)

C18_Witness ==
    /\ pc = "sleep"
    /\ cycle.outcome = "error"
    /\ prev.undelivered
    /\ prev.text = Str(error)
    /\ last_error = Str(error)
    /\ DiagnosticSends = <<>>

(***************************************************************************)
(* C19: a cycle in which parse_status raised at record k > 1 has sent the  *)
(* messages of records 1..k-1 and ends with the cursor it was fetched      *)
(* with; the next fetch uses that same cursor, and when it returns the     *)
(* same list of records, the messages of records 1..k-1 are sent again     *)
(* before parse_status raises again at record k.                           *)
(***************************************************************************)
\* the list of records the reply carries, <<>> when it carries none
ListOf(reply) ==
    IF /\ Decoded(reply)
       /\ IsDict(reply.json.val)
       /\ "homeworks" \in DOMAIN reply.json.val.v
       /\ IsList(reply.json.val.v["homeworks"])
    THEN reply.json.val.v["homeworks"].v
    ELSE <<>>
\* the sends of this cycle are those of records 1..k-1 of list q, in order
SentBefore(k, q) ==
    /\ Len(HomeworkSends) = k - 1
    /\ \A i \in 1..(k - 1) :
          /\ HomeworkSends[i].pos = i
          /\ HomeworkSends[i].text = parse_status(q[i]).val

C19_PrefixNotifiedAgain ==
    /\ [](pc = "sleep" /\ cycle.raisedBy = "parse_status" =>
            /\ idx = FirstFailure(homeworks)
            /\ SentBefore(idx, homeworks)
            /\ timestamp = cycle.ts)
    /\ [][(pc = "sleep" /\ cycle.raisedBy = "parse_status") =>
            /\ timestamp' = timestamp
            /\ prev'.ts = cycle.ts
            /\ prev'.batch = IF idx > 1 THEN homeworks ELSE <<>>]_vars
    /\ [][(pc = "request" /\ prev.raisedBy = "parse_status") =>
            /\ cycle'.ts = prev.ts
            /\ cycle'.again <=>
                 (prev.batch # <<>> /\ ListOf(cycle'.reply) = prev.batch)]_vars
    /\ [](pc = "sleep" /\ cycle.again =>
            /\ cycle.ts = prev.ts
            /\ cycle.raisedBy = "parse_status"
            /\ idx > 1
            /\ SentBefore(idx, homeworks))

C19_Witness ==
    /\ pc = "sleep"
    /\ cycle.again
    /\ cycle.ts = prev.ts
    /\ cycle.ts < now
    /\ Len(HomeworkSends) >= 1

====
